---- MODULE Spec2Model ----
(***************************************************************************)
(* Model of the SatWave photo analysis pipeline:                           *)
(*   PhotoAnalysisService.process_photo (core/services),                   *)
(*   Location / PhotoAnalysis (core/domain/models.py),                     *)
(*   StubAnalysisRepository and StubPhotoStorage (adapters/storage).       *)
(*                                                                         *)
(* A process_photo call is a coroutine; it is modelled as one action per   *)
(* segment between its await points, so that calls of different callers    *)
(* run one after the other (Spec) or overlap (OverlapSpec).  No coroutine  *)
(* of the adapters in the repository suspends, so on one event loop the    *)
(* calls run one after the other; they overlap only with adapters that     *)
(* suspend.  The repository and the photo storage are the in-memory stubs; *)
(* save_photo, is_ready and classify are taken at the level of their       *)
(* ports: each may return any value of its type or raise an Exception.     *)
(*                                                                         *)
(* Coordinates are integers in units of 0.0001 degree, confidences are     *)
(* integers in tenths; distances are compared exactly on their squares.    *)
(***************************************************************************)
EXTENDS Integers, Sequences, FiniteSets, TLC

VARIABLES
    repo,     \* StubAnalysisRepository._storage, in insertion order
    photos,   \* StubPhotoStorage._storage
    calls,    \* the process_photo calls in flight, one slot per caller
    last,     \* the process_photo call that ended last, with its outcome
    nextId,   \* the next identifier uuid4() hands out
    ncalls,   \* the number of process_photo calls begun
    result,   \* what the last lookup or domain operation returned
    settings, \* Settings: duplicate_check_threshold_meters, ml_model_type
    analysis_repo_cache,  \* dependencies._analysis_repo_cache
    user_sessions,  \* handlers.user_sessions: the UserSession of every user
    bot       \* the process_analysis of the bot that awaits process_photo

vars == <<repo, photos, calls, last, nextId, ncalls, result, settings, analysis_repo_cache, user_sessions, bot>>

\* the state outside process_photo
aux == <<result, settings, analysis_repo_cache, user_sessions, bot>>

----------------------------------------------------------------------------
\* Optional values: None is the empty sequence, a value v is <<v>>
None == <<>>
Some(v) == <<v>>

(* Bounds of the model *)

MaxCalls == 2

\* the longest detection list handed to get_dominant_waste_type
MaxDet == 3

(* Program constants *)

MetersPerDegree == 111000
DefaultThresholdMeters == 50
MinLatitude == -90
MaxLatitude == 90
MinLongitude == -180
MaxLongitude == 180

----------------------------------------------------------------------------
(* Input domains *)

Callers == {"c1", "c2"}

\* 55.7558, 55.7562 (44.4 m north), 55.7563 (55.5 m north), 100.0
Latitudes == {557558, 557562, 557563, 1000000}
\* 37.6173, 180.0001
Longitudes == {376173, 1800001}

PhotoData == {"fake image data"}

\* WasteDetection(waste_type, confidence, bounding_box)
WasteDetection(waste_type, confidence, bounding_box) ==
    [waste_type |-> waste_type, confidence |-> confidence, bounding_box |-> bounding_box]

\* the lists a classifier may return: none, one, two of a category, two
\* categories with equal confidence, and [{plastic,0.3},{plastic,0.9},{metal,0.5}]
ClassifierOutputs ==
    {<<>>,
     <<WasteDetection("metal", 9, Some("box1"))>>,
     <<WasteDetection("plastic", 3, Some("box1")), WasteDetection("plastic", 9, Some("box2"))>>,
     <<WasteDetection("plastic", 9, Some("box1")), WasteDetection("metal", 9, Some("box2"))>>,
     <<WasteDetection("plastic", 3, Some("box1")), WasteDetection("plastic", 9, Some("box2")),
       WasteDetection("metal", 5, None)>>}

\* the values of DUPLICATE_CHECK_THRESHOLD_METERS a deployment may set
Thresholds == {30, DefaultThresholdMeters, 100}

\* the arguments of find_nearby_analyses: 55.7548 (111.0 m south of
\* 55.7558), 55.7558, 100.0; radii of 50, 111 and 200 m
QueryLatitudes == {557548, 557558, 1000000}
QueryLongitudes == {376173}
QueryRadii == {50, 111, 200}
\* the thresholds location_already_analyzed is asked with
QueryThresholds == {DefaultThresholdMeters, 111}

\* the sequences over S of length at most n
RECURSIVE SeqsUpTo(_, _)
SeqsUpTo(S, n) ==
    IF n = 0 THEN {<<>>}
    ELSE LET shorter == SeqsUpTo(S, n - 1)
         IN  shorter \cup {Append(q, x) : q \in {r \in shorter : Len(r) = n - 1}, x \in S}

\* the detections a PhotoAnalysis may hold: two categories, three
\* confidences (0.2, 0.8, 0.9)
DomainDetections ==
    {WasteDetection(t, conf, None) : t \in {"glass", "paper"}, conf \in {2, 8, 9}}

\* the latitudes and longitudes Location is constructed with: the ends of
\* the ranges, their neighbours at 0.0001 degree, and a point inside
DomainLatitudes == {-900001, -900000, 557558, 900000, 900001}
DomainLongitudes == {-1800001, -1800000, 376173, 1800000, 1800001}

\* what a port call may raise: its class and its message (str(e))
\* (a message is a sequence of text pieces, "" the empty sequence)
Raised == {[cls |-> "MLModelError", msg |-> <<"model crashed">>],
           [cls |-> "Exception", msg |-> <<"io error">>]}


----------------------------------------------------------------------------
(* core/domain/models.py *)

\* d degrees in coordinate units
Deg(d) == d * 10000

\* (variant: the longitude is not checked)
ValidLocationLatitudeOnly(lat, lon) ==
    Deg(MinLatitude) <= lat /\ lat <= Deg(MaxLatitude)

\* Location.__post_init__: the ranges of latitude and longitude
ValidLocation(lat, lon) ==
    /\ Deg(MinLatitude) <= lat /\ lat <= Deg(MaxLatitude)
    /\ Deg(MinLongitude) <= lon /\ lon <= Deg(MaxLongitude)

\* Location(latitude=..., longitude=...)
Location(lat, lon) == [latitude |-> lat, longitude |-> lon]

\* PhotoAnalysis.create
PhotoAnalysis_create(id, photo_url, location) ==
    [id |-> id, photo_url |-> photo_url, location |-> location,
     detections |-> <<>>, status |-> "pending", error_message |-> None]

\* the analysis variable of a call before line 95
NoAnalysis ==
    [id |-> 0, photo_url |-> <<>>, location |-> Location(0, 0),
     detections |-> <<>>, status |-> "unbound", error_message |-> None]

\* (variant: the ends of the ranges are not valid)
Location_new_exclusive(lat, lon) ==
    IF /\ Deg(MinLatitude) < lat /\ lat < Deg(MaxLatitude)
       /\ Deg(MinLongitude) < lon /\ lon < Deg(MaxLongitude)
    THEN [value |-> Some(Location(lat, lon)), raised |-> None]
    ELSE [value |-> None, raised |-> Some("ValueError")]

\* the constructor of Location: the value, or the ValueError of __post_init__
Location_new(lat, lon) ==
    IF ValidLocation(lat, lon)
    THEN [value |-> Some(Location(lat, lon)), raised |-> None]
    ELSE [value |-> None, raised |-> Some("ValueError")]

\* max(detections, key=lambda d: d.confidence) from position i on, best
\* being the maximum so far: a later element replaces it only if greater
RECURSIVE max_by_confidence(_, _, _)
max_by_confidence(detections, i, best) ==
    IF i > Len(detections) THEN best
    ELSE max_by_confidence(detections, i + 1,
            IF detections[i].confidence > best.confidence THEN detections[i] ELSE best)

\* (variant of max: a later element replaces an equal one)
RECURSIVE max_by_confidence_last(_, _, _)
max_by_confidence_last(detections, i, best) ==
    IF i > Len(detections) THEN best
    ELSE max_by_confidence_last(detections, i + 1,
            IF detections[i].confidence >= best.confidence THEN detections[i] ELSE best)

\* (variant: the last of the detections of maximum confidence)
get_dominant_waste_type_last(analysis) ==
    IF analysis.detections = <<>> THEN "unknown"
    ELSE max_by_confidence_last(analysis.detections, 2, analysis.detections[1]).waste_type

\* PhotoAnalysis.get_dominant_waste_type
get_dominant_waste_type(analysis) ==
    IF analysis.detections = <<>> THEN "unknown"
    ELSE max_by_confidence(analysis.detections, 2, analysis.detections[1]).waste_type


----------------------------------------------------------------------------
(* adapters/storage/stub_repository.py *)

Abs(x) == IF x < 0 THEN -x ELSE x

\* distance <= radius_meters, with
\* distance = ((lat_diff ** 2 + lon_diff ** 2) ** 0.5) * 111000 in degrees;
\* compared on the squares, in units of 0.1 m.  Differences beyond FarUnits
\* (more than 2 km) are farther than any radius used and are cut off to
\* keep the squares small.
FarUnits == 200
WithinRadius(a, b, radius_meters) ==
    LET lat_diff == Abs(a.latitude - b.latitude)
        lon_diff == Abs(a.longitude - b.longitude)
    IN  /\ radius_meters >= 0
        /\ lat_diff <= FarUnits
        /\ lon_diff <= FarUnits
        /\ (lat_diff * lat_diff + lon_diff * lon_diff)
              * (MetersPerDegree \div 1000) * (MetersPerDegree \div 1000)
           <= (radius_meters * (Deg(1) \div 1000)) * (radius_meters * (Deg(1) \div 1000))

\* (variant: an analysis at exactly the radius is left out)
find_by_location_inside(storage, location, radius_meters) ==
    SelectSeq(storage, LAMBDA a :
        LET lat_diff == Abs(a.location.latitude - location.latitude)
            lon_diff == Abs(a.location.longitude - location.longitude)
        IN  /\ lat_diff <= FarUnits
            /\ lon_diff <= FarUnits
            /\ (lat_diff * lat_diff + lon_diff * lon_diff)
                  * (MetersPerDegree \div 1000) * (MetersPerDegree \div 1000)
               < (radius_meters * (Deg(1) \div 1000)) * (radius_meters * (Deg(1) \div 1000)))

\* (variant: only the analyses that completed are looked at)
find_by_location_completed(storage, location, radius_meters) ==
    SelectSeq(storage, LAMBDA a :
        a.status = "completed" /\ WithinRadius(a.location, location, radius_meters))

\* StubAnalysisRepository.find_by_location: the stored analyses within the
\* radius, in insertion order
find_by_location(storage, location, radius_meters) ==
    SelectSeq(storage, LAMBDA a : WithinRadius(a.location, location, radius_meters))

\* (variant: one analysis nearby is not enough)
location_already_analyzed_twice(storage, location, threshold_meters) ==
    Len(find_by_location(storage, location, threshold_meters)) > 1

\* (variant: the threshold asked for is dropped, the default is used)
location_already_analyzed_default(storage, location, threshold_meters) ==
    Len(find_by_location(storage, location, DefaultThresholdMeters)) > 0

\* StubAnalysisRepository.location_already_analyzed
location_already_analyzed(storage, location, threshold_meters) ==
    Len(find_by_location(storage, location, threshold_meters)) > 0

\* StubAnalysisRepository.save: _storage[analysis.id] = analysis (a dict
\* keeps the position of a key that is already present)
repo_save(storage, analysis) ==
    IF \E i \in 1..Len(storage) : storage[i].id = analysis.id
    THEN [i \in 1..Len(storage) |->
            IF storage[i].id = analysis.id THEN analysis ELSE storage[i]]
    ELSE Append(storage, analysis)

\* (variant: only a completed analysis is found)
get_by_id_completed(storage, analysis_id) ==
    IF \E i \in 1..Len(storage) :
          storage[i].id = analysis_id /\ storage[i].status = "completed"
    THEN Some(storage[CHOOSE i \in 1..Len(storage) : storage[i].id = analysis_id])
    ELSE None

\* StubAnalysisRepository.get_by_id
get_by_id(storage, analysis_id) ==
    IF \E i \in 1..Len(storage) : storage[i].id = analysis_id
    THEN Some(storage[CHOOSE i \in 1..Len(storage) : storage[i].id = analysis_id])
    ELSE None

(* adapters/storage/stub_photo_storage.py *)

\* StubPhotoStorage.save_photo: f"{base_url}/{photo_id}.jpg"
photo_url_of(photo_id) == <<"http://localhost:8000/photos", photo_id, ".jpg">>

----------------------------------------------------------------------------
(* adapters/ml: stub_classifier.py, yolo_classifier.py,
   roboflow_inference_classifier.py *)

\* ml_model_confidence_threshold, 0.25, in hundredths
ConfidenceThreshold == 25

\* the detection returned when nothing was found, or when inference failed
Sentinel == WasteDetection("unknown", 0, None)

\* sum(d.confidence for d in detections)
RECURSIVE SumConfidence(_)
SumConfidence(detections) ==
    IF detections = <<>> THEN 0
    ELSE Head(detections).confidence + SumConfidence(Tail(detections))

\* the average of the confidences (in tenths, rounded down)
AvgConfidence(detections) == SumConfidence(detections) \div Len(detections)

\* StubWasteClassifier.classify: one to three detections of categories other
\* than UNKNOWN with confidences between 0.6 and 0.95, drawn at random
StubOutputs ==
    LET drawn == {WasteDetection(t, conf, Some("box")) : t \in {"plastic", "metal"}, conf \in {6, 9}}
    IN  {<<d>> : d \in drawn}
          \cup {<<d1, d2>> : d1 \in drawn, d2 \in drawn}
          \cup {<<d, d, d>> : d \in drawn}

\* YOLOv8Classifier._map_yolo_class_to_waste_type: a class of the mapping,
\* or UNKNOWN
map_yolo_class_to_waste_type(class_name) ==
    IF class_name = "bottle" THEN "plastic" ELSE "unknown"

\* RoboflowInferenceClassifier._map_class_to_waste_type: a class of the
\* mapping, or MIXED
map_class_to_waste_type(class_name) ==
    IF class_name = "plastic" THEN "plastic" ELSE "mixed"

\* the boxes or predictions a model returns: class, confidence, box
ModelPrediction(class_name, confidence) ==
    [class |-> class_name, confidence |-> confidence]

\* the lists of at most two boxes of YOLO: a class of the mapping and one
\* outside it, confidences 0.3 and 0.8
YoloResults ==
    LET boxes == {ModelPrediction(cl, conf) : cl \in {"bottle", "person"}, conf \in {3, 8}}
    IN  {<<>>} \cup {<<b>> : b \in boxes} \cup {<<b1, b2>> : b1 \in boxes, b2 \in boxes}

\* the lists of at most two predictions of the Roboflow API: confidences
\* 0.2 (below the threshold) and 0.8
RoboflowResults ==
    LET predictions == {ModelPrediction(cl, conf) : cl \in {"plastic", "person"}, conf \in {2, 8}}
    IN  {<<>>} \cup {<<q>> : q \in predictions}
          \cup {<<q1, q2>> : q1 \in predictions, q2 \in predictions}

\* yolo_classifier.py lines 352-495: the boxes are mapped; the known
\* detections are returned, with one MIXED for the unknown ones; two or more
\* unknown ones alone give one MIXED, a single unknown one is returned;
\* nothing gives the sentinel; an Exception gives the sentinel
yolo_classify(boxes, inference_raises) ==
    LET detections == [k \in 1..Len(boxes) |->
                          WasteDetection(map_yolo_class_to_waste_type(boxes[k].class),
                                         boxes[k].confidence, Some("box"))]
        unknown_detections == SelectSeq(detections, LAMBDA d : d.waste_type = "unknown")
        known_detections == SelectSeq(detections, LAMBDA d : d.waste_type # "unknown")
        mixed == WasteDetection("mixed", AvgConfidence(unknown_detections), None)
    IN  IF inference_raises THEN <<Sentinel>>
        ELSE IF known_detections # <<>>
        THEN IF unknown_detections # <<>> THEN Append(known_detections, mixed)
             ELSE known_detections
        ELSE IF unknown_detections # <<>>
        THEN IF Len(unknown_detections) >= 2 THEN <<mixed>> ELSE unknown_detections
        ELSE <<Sentinel>>

\* (variant: the filtered list is returned as it is)
roboflow_classify_unguarded(predictions, inference_raises) ==
    LET kept == SelectSeq(predictions, LAMBDA q : q.confidence * 10 >= ConfidenceThreshold)
    IN  IF inference_raises THEN <<Sentinel>>
        ELSE [k \in 1..Len(kept) |->
                 WasteDetection(map_class_to_waste_type(kept[k].class),
                                kept[k].confidence, Some("box"))]

\* roboflow_inference_classifier.py lines 127-239: the predictions below the
\* threshold are dropped, the others are mapped; nothing left gives the
\* sentinel; an Exception gives the sentinel
roboflow_classify(predictions, inference_raises) ==
    LET kept == SelectSeq(predictions, LAMBDA q : q.confidence * 10 >= ConfidenceThreshold)
        detections == [k \in 1..Len(kept) |->
                          WasteDetection(map_class_to_waste_type(kept[k].class),
                                         kept[k].confidence, Some("box"))]
    IN  IF inference_raises THEN <<Sentinel>>
        ELSE IF detections = <<>> THEN <<Sentinel>>
        ELSE detections

----------------------------------------------------------------------------
(* State *)

\* no exception pending; as an outcome: the call has not ended
NoException == [cls |-> "none", msg |-> <<>>]
\* the outcome of a call that returned its analysis
Returned == [cls |-> "returned", msg |-> <<>>]

IdleCall ==
    [pc |-> "idle", photo_data |-> "", latitude |-> 0, longitude |-> 0,
     skip_duplicate_check |-> FALSE, analysis |-> NoAnalysis, exc |-> NoException,
     outcome |-> NoException, raised |-> None, ready |-> None, raw |-> None,
     n_guard |-> 0, n_save_photo |-> 0, n_is_ready |-> 0, n_classify |-> 0,
     saved |-> <<>>]

\* no operation has returned anything yet
NoResult == [op |-> "none", args |-> <<>>, value |-> None, raised |-> None]

\* UserSession.__init__: no photo, no coordinates
NoSession == [photo_data |-> None, latitude |-> None, longitude |-> None]

\* no process_analysis is under way
IdleBot == [pc |-> "idle", user |-> 0, session |-> NoSession]

\* the users that write to the bot
BotUsers == {1001, 1002}

\* the services are constructed over empty stubs, in a deployment with
\* the given settings
InitSettings(threshold_meters, ml_model_type) ==
    /\ repo = <<>>
    /\ photos = {}
    /\ calls = [c \in Callers |-> IdleCall]
    /\ last = IdleCall
    /\ nextId = 1
    /\ ncalls = 0
    /\ result = NoResult
    /\ settings = [duplicate_check_threshold_meters |-> threshold_meters,
                   ml_model_type |-> ml_model_type]
    /\ analysis_repo_cache = None
    /\ user_sessions = [user \in BotUsers |-> NoSession]
    /\ bot = IdleBot

\* the default classifier is the stub
InitWith(threshold_meters) == InitSettings(threshold_meters, "stub")

Init == InitWith(DefaultThresholdMeters)

----------------------------------------------------------------------------
(* core/services/photo_analysis_service.py: PhotoAnalysisService.process_photo *)

\* the exceptions process_photo raises itself
InvalidLocationError == [cls |-> "InvalidLocationError", msg |-> <<"Invalid coordinates">>]
DuplicateLocationError == [cls |-> "DuplicateLocationError", msg |-> <<"was already analyzed">>]
ModelNotReady == [cls |-> "MLModelError", msg |-> <<"ML model is not ready">>]
PhotoProcessingError(e) == [cls |-> "PhotoProcessingError", msg |-> <<"Failed to process photo: ">> \o e.msg]

\* (variant: the result of the check is dropped)
GuardNeverRejects(skip_duplicate_check, storage, location) == FALSE

\* (variant: skip_duplicate_check is not looked at)
GuardIgnoresSkip(skip_duplicate_check, storage, location) ==
    location_already_analyzed(storage, location, DefaultThresholdMeters)

\* lines 86-88: the guard rejects the call
GuardRejects(skip_duplicate_check, storage, location) ==
    /\ ~skip_duplicate_check
    /\ location_already_analyzed(storage, location, DefaultThresholdMeters)

\* (variant: the analysis is put back to pending when the model fails)
except_MLModelError_requeue(analysis, e) ==
    [analysis |-> [analysis EXCEPT !.status = "pending", !.error_message = Some(e.msg)],
     raise |-> e]

\* lines 117-121: except MLModelError
except_MLModelError(analysis, e) ==
    [analysis |-> [analysis EXCEPT !.status = "failed", !.error_message = Some(e.msg)],
     raise |-> e]

\* (variant: the original exception is re-raised)
except_Exception_reraise(analysis, e) ==
    [analysis |-> [analysis EXCEPT !.status = "failed", !.error_message = Some(e.msg)],
     raise |-> e]

\* (variant: the handler records the message and leaves the status)
except_Exception_keeps_status(analysis, e) ==
    [analysis |-> [analysis EXCEPT !.error_message = Some(e.msg)],
     raise |-> PhotoProcessingError(e)]

\* lines 123-127: except Exception
except_Exception(analysis, e) ==
    [analysis |-> [analysis EXCEPT !.status = "failed", !.error_message = Some(e.msg)],
     raise |-> PhotoProcessingError(e)]

\* (variant: except Exception comes first and catches MLModelError too)
HandleCatchAll(analysis, e) == except_Exception(analysis, e)

\* the except clauses of the try block, in their order
Handle(analysis, e) ==
    IF e.cls = "MLModelError" THEN except_MLModelError(analysis, e)
    ELSE except_Exception(analysis, e)

\* (variant: the status is left as it was)
CompleteWithoutStatus(analysis, detections) ==
    [analysis EXCEPT !.detections = detections]

\* lines 109-110: the classifier's list is stored as it is
Complete(analysis, detections) ==
    [analysis EXCEPT !.detections = detections, !.status = "completed"]

\* an exception e leaves the try block of call c: handler, then finally
Fail(c, e) ==
    LET h == Handle(calls[c].analysis, e)
    IN  [calls EXCEPT ![c].analysis = h.analysis, ![c].exc = h.raise, ![c].pc = "finally"]

\* a port call of call c raised e
PortRaises(c, e) == [Fail(c, e) EXCEPT ![c].raised = Some(e)]

\* call c ends: it returns, or raises outcome
End(c, call, outcome) ==
    /\ calls' = [calls EXCEPT ![c] = IdleCall]
    /\ last' = [call EXCEPT !.pc = "done", !.outcome = outcome]

\* a new call takes the first free slot (the slots are interchangeable)
FreeSlot(c) ==
    /\ calls[c].pc = "idle"
    /\ c = "c2" => calls["c1"].pc # "idle"

\* lines 76-83: entry, construction of the Location
Enter(c, photo_data, lat, lon, skip) ==
    LET call == [IdleCall EXCEPT !.pc = "check_duplicate", !.photo_data = photo_data,
                    !.latitude = lat, !.longitude = lon, !.skip_duplicate_check = skip]
    IN  /\ FreeSlot(c)
        /\ ncalls < MaxCalls
        /\ ncalls' = ncalls + 1
        /\ IF ValidLocation(lat, lon)
           THEN calls' = [calls EXCEPT ![c] = call] /\ UNCHANGED last
           ELSE End(c, call, InvalidLocationError)

\* a call on a service whose repository and photo storage are at hand
Begin(c, photo_data, lat, lon, skip) ==
    /\ Enter(c, photo_data, lat, lon, skip)
    /\ UNCHANGED <<repo, photos, nextId>>

\* lines 85-95: the duplicate check, then PhotoAnalysis.create with a fresh id
CheckDuplicate(c) ==
    LET call == calls[c]
        location == Location(call.latitude, call.longitude)
        asked == IF call.skip_duplicate_check THEN 0 ELSE 1
    IN  /\ call.pc = "check_duplicate"
        /\ IF GuardRejects(call.skip_duplicate_check, repo, location)
           THEN /\ End(c, [call EXCEPT !.n_guard = call.n_guard + asked], DuplicateLocationError)
                /\ UNCHANGED nextId
           ELSE /\ calls' = [calls EXCEPT ![c].pc = "created",
                                          ![c].n_guard = call.n_guard + asked,
                                          ![c].analysis = PhotoAnalysis_create(nextId, <<>>, location)]
                /\ nextId' = nextId + 1
                /\ UNCHANGED last
        /\ UNCHANGED <<repo, photos, ncalls>>

\* line 96: analysis.status = AnalysisStatus.PROCESSING
StartProcessing(c) ==
    /\ calls[c].pc = "created"
    /\ calls' = [calls EXCEPT ![c].analysis.status = "processing", ![c].pc = "save_photo"]
    /\ UNCHANGED <<repo, photos, last, nextId, ncalls>>

\* lines 100-102: await photo_storage.save_photo(photo_data, analysis.id)
SavePhotoOk(c) ==
    LET call == calls[c]
        url == photo_url_of(call.analysis.id)
    IN  /\ call.pc = "save_photo"
        /\ photos' = photos \cup {[url |-> url, data |-> call.photo_data]}
        /\ calls' = [calls EXCEPT ![c].analysis.photo_url = url,
                                  ![c].n_save_photo = call.n_save_photo + 1,
                                  ![c].pc = "is_ready"]
        /\ UNCHANGED <<repo, last, nextId, ncalls>>

\* (variant: a first failure of save_photo is followed by a second attempt)
SavePhotoRaisesRetry(c, e) ==
    /\ calls[c].pc = "save_photo"
    /\ calls' = IF calls[c].n_save_photo = 0
                THEN [calls EXCEPT ![c].n_save_photo = 1, ![c].raised = Some(e)]
                ELSE [PortRaises(c, e) EXCEPT ![c].n_save_photo = calls[c].n_save_photo + 1]
    /\ UNCHANGED <<repo, photos, last, nextId, ncalls>>

\* (variant: the URL is assigned before save_photo is awaited)
SavePhotoRaisesAfterUrl(c, e) ==
    /\ calls[c].pc = "save_photo"
    /\ calls' = [[PortRaises(c, e) EXCEPT ![c].n_save_photo = calls[c].n_save_photo + 1]
                    EXCEPT ![c].analysis.photo_url = photo_url_of(calls[c].analysis.id)]
    /\ UNCHANGED <<repo, photos, last, nextId, ncalls>>

\* line 100: save_photo raises
SavePhotoRaises(c, e) ==
    /\ calls[c].pc = "save_photo"
    /\ calls' = [PortRaises(c, e) EXCEPT ![c].n_save_photo = calls[c].n_save_photo + 1]
    /\ UNCHANGED <<repo, photos, last, nextId, ncalls>>

\* lines 105-106: await waste_classifier.is_ready()
IsReadyTrue(c) ==
    /\ calls[c].pc = "is_ready"
    /\ calls' = [calls EXCEPT ![c].n_is_ready = calls[c].n_is_ready + 1,
                              ![c].ready = Some(TRUE),
                              ![c].pc = "classify"]
    /\ UNCHANGED <<repo, photos, last, nextId, ncalls>>

\* (variant: the answer of is_ready is not looked at)
IsReadyFalseClassifies(c) ==
    /\ calls[c].pc = "is_ready"
    /\ calls' = [calls EXCEPT ![c].n_is_ready = calls[c].n_is_ready + 1,
                              ![c].ready = Some(FALSE),
                              ![c].pc = "classify"]
    /\ UNCHANGED <<repo, photos, last, nextId, ncalls>>

\* lines 105-106: is_ready returned false, MLModelError is raised
IsReadyFalse(c) ==
    /\ calls[c].pc = "is_ready"
    /\ calls' = [Fail(c, ModelNotReady) EXCEPT ![c].n_is_ready = calls[c].n_is_ready + 1,
                                               ![c].ready = Some(FALSE)]
    /\ UNCHANGED <<repo, photos, last, nextId, ncalls>>

IsReadyRaises(c, e) ==
    /\ calls[c].pc = "is_ready"
    /\ calls' = [PortRaises(c, e) EXCEPT ![c].n_is_ready = calls[c].n_is_ready + 1]
    /\ UNCHANGED <<repo, photos, last, nextId, ncalls>>

\* lines 108-110: await waste_classifier.classify(photo_data)
ClassifyOk(c, detections) ==
    /\ calls[c].pc = "classify"
    /\ calls' = [calls EXCEPT ![c].analysis = Complete(calls[c].analysis, detections),
                              ![c].raw = Some(detections),
                              ![c].n_classify = calls[c].n_classify + 1,
                              ![c].pc = "finally"]
    /\ UNCHANGED <<repo, photos, last, nextId, ncalls>>

ClassifyRaises(c, e) ==
    /\ calls[c].pc = "classify"
    /\ calls' = [PortRaises(c, e) EXCEPT ![c].n_classify = calls[c].n_classify + 1]
    /\ UNCHANGED <<repo, photos, last, nextId, ncalls>>

\* (variant: the save is at the end of the try block, not in finally)
FinallyOnSuccessOnly(c) ==
    LET call == calls[c]
    IN  /\ call.pc = "finally"
        /\ IF call.exc = NoException
           THEN /\ repo' = repo_save(repo, call.analysis)
                /\ End(c, [call EXCEPT !.saved = Append(call.saved, call.analysis)], Returned)
           ELSE /\ repo' = repo
                /\ End(c, call, call.exc)
        /\ UNCHANGED <<photos, nextId, ncalls>>

\* (variant: the save looks at the repository again and stores nothing
\* when an analysis within the threshold has been stored meanwhile)
FinallyRechecks(c) ==
    LET call == calls[c]
    IN  /\ call.pc = "finally"
        /\ IF location_already_analyzed(repo, call.analysis.location, DefaultThresholdMeters)
           THEN /\ repo' = repo
                /\ End(c, call, DuplicateLocationError)
           ELSE /\ repo' = repo_save(repo, call.analysis)
                /\ End(c, [call EXCEPT !.saved = Append(call.saved, call.analysis)],
                       IF call.exc = NoException THEN Returned ELSE call.exc)
        /\ UNCHANGED <<photos, nextId, ncalls>>

\* lines 129-133: finally: await analysis_repo.save(analysis); then the
\* pending exception is raised, or the analysis returned
Finally(c) ==
    LET call == calls[c]
    IN  /\ call.pc = "finally"
        /\ repo' = repo_save(repo, call.analysis)
        /\ End(c, [call EXCEPT !.saved = Append(call.saved, call.analysis)],
               IF call.exc = NoException THEN Returned ELSE call.exc)
        /\ UNCHANGED <<photos, nextId, ncalls>>

----------------------------------------------------------------------------

Step(c) ==
  /\ UNCHANGED aux
  /\
    \/ CheckDuplicate(c)
    \/ StartProcessing(c)
    \/ SavePhotoOk(c)
    \/ \E e \in Raised : SavePhotoRaises(c, e)
    \/ IsReadyTrue(c)
    \/ IsReadyFalse(c)
    \/ \E e \in Raised : IsReadyRaises(c, e)
    \/ \E d \in ClassifierOutputs : ClassifyOk(c, d)
    \/ \E e \in Raised : ClassifyRaises(c, e)
    \/ Finally(c)

\* process_photo calls that do not overlap: a call begins only when no
\* other call is in flight
NoCallInFlight == \A c \in Callers : calls[c].pc = "idle"

Next ==
    \/ \E c \in Callers, p \in PhotoData, lat \in Latitudes, lon \in Longitudes, skip \in BOOLEAN :
          NoCallInFlight /\ Begin(c, p, lat, lon, skip) /\ UNCHANGED aux
    \/ \E c \in Callers : Step(c)

Spec == Init /\ [][Next]_vars

\* no call sets skip_duplicate_check
NoSkipNext ==
    \/ \E c \in Callers, p \in PhotoData, lat \in Latitudes, lon \in Longitudes :
          NoCallInFlight /\ Begin(c, p, lat, lon, FALSE) /\ UNCHANGED aux
    \/ \E c \in Callers : Step(c)

NoSkipSpec == Init /\ [][NoSkipNext]_vars

\* process_photo calls that may overlap in time (with adapters whose
\* coroutines suspend), none skipping the duplicate check, at one point or
\* at the point 44.4 m north of it
OverlapLatitudes == {557558, 557562}
OverlapLongitudes == {376173}

OverlapNext ==
    \/ \E c \in Callers, p \in PhotoData, lat \in OverlapLatitudes, lon \in OverlapLongitudes :
          Begin(c, p, lat, lon, FALSE) /\ UNCHANGED aux
    \/ \E c \in Callers : Step(c)

OverlapSpec == Init /\ [][OverlapNext]_vars

\* the service in a deployment whose settings carry any of the thresholds
ConfigInit == \E threshold_meters \in Thresholds : InitWith(threshold_meters)

ConfigSpec == ConfigInit /\ [][Next]_vars

----------------------------------------------------------------------------
(* core/services/photo_analysis_service.py: get_analysis, find_nearby_analyses *)

\* the identifiers asked for: those uuid4() may have handed out, and one more
QueryIds == 1..(MaxCalls + 1)

\* lines 135-145: return await self.analysis_repo.get_by_id(analysis_id)
GetAnalysis(analysis_id) ==
    /\ result' = [op |-> "get_analysis", args |-> <<analysis_id>>,
                  value |-> get_by_id(repo, analysis_id), raised |-> None]
    /\ UNCHANGED <<repo, photos, calls, last, nextId, ncalls, settings, analysis_repo_cache, user_sessions, bot>>

\* lines 147-162: the Location is constructed (its ValueError is not
\* caught), then find_by_location answers
FindNearby(lat, lon, radius_meters) ==
    /\ result' = [op |-> "find_nearby_analyses", args |-> <<lat, lon, radius_meters>>,
                  value |-> IF Location_new(lat, lon).raised = None
                            THEN Some(find_by_location(repo, Location_new(lat, lon).value[1],
                                                       radius_meters))
                            ELSE None,
                  raised |-> Location_new(lat, lon).raised]
    /\ UNCHANGED <<repo, photos, calls, last, nextId, ncalls, settings, analysis_repo_cache, user_sessions, bot>>

\* stub_repository.py lines 55-60: analysis_repo.location_already_analyzed
\* asked for a Location and a threshold
LocationAlreadyAnalyzed(lat, lon, threshold_meters) ==
    /\ ValidLocation(lat, lon)
    /\ result' = [op |-> "location_already_analyzed", args |-> <<lat, lon, threshold_meters>>,
                  value |-> Some(location_already_analyzed(repo, Location(lat, lon),
                                                           threshold_meters)),
                  raised |-> None]
    /\ UNCHANGED <<repo, photos, calls, last, nextId, ncalls, settings, analysis_repo_cache, user_sessions, bot>>

\* process_photo calls one after the other, and a lookup between them (a
\* lookup changes nothing, so one lookup between two calls shows what any
\* number would; what it returned is forgotten when the next call begins)
QueryNext ==
    \/ \E c \in Callers, p \in PhotoData, lat \in Latitudes, lon \in Longitudes, skip \in BOOLEAN :
          /\ NoCallInFlight
          /\ Begin(c, p, lat, lon, skip)
          /\ result' = NoResult
          /\ UNCHANGED <<settings, analysis_repo_cache, user_sessions, bot>>
    \/ \E c \in Callers : Step(c)
    \/ \E analysis_id \in QueryIds :
          NoCallInFlight /\ result = NoResult /\ GetAnalysis(analysis_id)
    \/ \E lat \in QueryLatitudes, lon \in QueryLongitudes, radius_meters \in QueryRadii :
          NoCallInFlight /\ result = NoResult /\ FindNearby(lat, lon, radius_meters)
    \/ \E lat \in QueryLatitudes, lon \in QueryLongitudes, threshold_meters \in QueryThresholds :
          NoCallInFlight /\ result = NoResult /\ LocationAlreadyAnalyzed(lat, lon, threshold_meters)

QuerySpec == Init /\ [][QueryNext]_vars

----------------------------------------------------------------------------
(* adapters/api: dependencies.py and webhook.py, POST /webhook/photo *)

\* the photo files of the requests: one with content, one empty
UploadedPhotos == {"fake image data", ""}

\* (variant: every request is given a new repository)
get_analysis_repository_uncached(cache, storage) ==
    [repo |-> <<>>, cache |-> None]

\* get_analysis_repository: the cached StubAnalysisRepository (storage is
\* what it holds), or a new, empty one that is cached from now on
get_analysis_repository(cache, storage) ==
    IF cache # None
    THEN [repo |-> storage, cache |-> cache]
    ELSE [repo |-> <<>>, cache |-> Some("StubAnalysisRepository")]

\* what the request is answered with when it did not reach process_photo
RequestValidationError == [cls |-> "RequestValidationError", msg |-> <<"latitude or longitude">>]
EmptyPhotoFile == [cls |-> "HTTPException", msg |-> <<"Empty photo file">>]

\* the answer of receive_photo to the outcome of the request: the status
\* code, and the exception that leaves the handler uncaught, if any
receive_photo_response(outcome) ==
    CASE outcome.cls = "returned" -> [status_code |-> 201, escaped |-> None]
      [] outcome.cls = "RequestValidationError" -> [status_code |-> 422, escaped |-> None]
      [] outcome.cls = "HTTPException" -> [status_code |-> 400, escaped |-> None]
      [] outcome.cls = "InvalidLocationError" -> [status_code |-> 400, escaped |-> None]
      [] outcome.cls = "DuplicateLocationError" -> [status_code |-> 409, escaped |-> None]
      [] outcome.cls = "PhotoProcessingError" -> [status_code |-> 500, escaped |-> None]
      [] OTHER -> [status_code |-> 500, escaped |-> Some(outcome.cls)]

\* POST /webhook/photo: the service is built over the cached repository,
\* the form is validated (ge/le of latitude and longitude), the photo is
\* read, and process_photo is entered
ReceivePhoto(c, photo_data, lat, lon, skip) ==
    LET dep == get_analysis_repository(analysis_repo_cache, repo)
        request == [IdleCall EXCEPT !.photo_data = photo_data, !.latitude = lat,
                       !.longitude = lon, !.skip_duplicate_check = skip]
    IN  /\ analysis_repo_cache' = dep.cache
        /\ repo' = dep.repo
        /\ IF ~ValidLocation(lat, lon)
           THEN /\ FreeSlot(c) /\ ncalls < MaxCalls /\ ncalls' = ncalls + 1
                /\ End(c, request, RequestValidationError)
           ELSE IF photo_data = ""
           THEN /\ FreeSlot(c) /\ ncalls < MaxCalls /\ ncalls' = ncalls + 1
                /\ End(c, request, EmptyPhotoFile)
           ELSE Enter(c, photo_data, lat, lon, skip)
        /\ UNCHANGED <<photos, nextId, result, settings, user_sessions, bot>>

\* requests handled one after the other
WebhookNext ==
    \/ \E c \in Callers, p \in UploadedPhotos, lat \in Latitudes, lon \in Longitudes, skip \in BOOLEAN :
          NoCallInFlight /\ ReceivePhoto(c, p, lat, lon, skip)
    \/ \E c \in Callers : Step(c)

WebhookSpec == Init /\ [][WebhookNext]_vars

----------------------------------------------------------------------------
(* adapters/bot/handlers.py: the Telegram bot.  The messages of the users  *)
(* are handled one after the other; every call of the Telegram API         *)
(* (get_file, download_file, answer, edit_text) may raise.                 *)

\* the photos users send: what validate_image looks at (the length in
\* bytes, whether PIL opens it, its format and its size in pixels)
Image(data, length, opens, format, width, height) ==
    [data |-> data, length |-> length, opens |-> opens, format |-> format,
     width |-> width, height |-> height]

BotImages ==
    { Image("fake image data", 2048, TRUE, "JPEG", 640, 480),
      Image("thumbnail", 512, TRUE, "JPEG", 90, 90),
      Image("text file", 4096, FALSE, "", 0, 0),
      Image("animation", 4096, TRUE, "GIF", 640, 480),
      Image("icon", 4096, TRUE, "PNG", 64, 64),
      Image("banner", 4096, TRUE, "PNG", 2000, 100) }

ImageOf(photo_data) == CHOOSE image \in BotImages : image.data = photo_data

MinFileSize == 1024
MaxFileSize == 20 * 1024 * 1024
MinImageSize == 100
MaxAspectRatio == 10
MinImageArea == 10000

\* validate_image: whether the image is accepted
validate_image(image) ==
    /\ image.length >= MinFileSize
    /\ image.length <= MaxFileSize
    /\ image.opens
    /\ image.format \in {"JPEG", "PNG", "WEBP"}
    /\ image.width >= MinImageSize /\ image.height >= MinImageSize
    /\ image.width <= MaxAspectRatio * image.height
    /\ image.height <= MaxAspectRatio * image.width
    /\ image.width * image.height >= MinImageArea

\* the places users send, by the Location button (always in range) ...
BotLatitudes == {557558, 557562}
BotLongitudes == {376173}

\* ... or in a text: a Google Maps URL, two numbers, or words
Text(kind, lat, lon) == [kind |-> kind, latitude |-> lat, longitude |-> lon]

BotTexts ==
    { Text("maps_url", 1000000, 376173),
      Text("numbers", 557558, 376173),
      Text("numbers", 1000000, 376173),
      Text("words", 0, 0) }

\* parse_coordinates_from_text: the coordinates of a Google Maps URL as
\* they are, two numbers when they are in range, else None
parse_coordinates_from_text(text) ==
    CASE text.kind = "maps_url" -> Some(<<text.latitude, text.longitude>>)
      [] text.kind = "numbers" ->
            IF ValidLocation(text.latitude, text.longitude)
            THEN Some(<<text.latitude, text.longitude>>)
            ELSE None
      [] OTHER -> None

\* UserSession: has_photo, has_location, is_ready, clear
has_photo(session) == session.photo_data # None
has_location(session) == session.latitude # None /\ session.longitude # None
session_is_ready(session) == has_photo(session) /\ has_location(session)
session_clear(session) == NoSession

\* process_analysis, lines 426-460: whether session.clear() is reached
\* when process_photo ended with outcome.  Every branch edits the
\* processing message before it clears the session; when the edit of the
\* success branch raises, the except Exception branch edits once more.
process_analysis_clears(outcome, edit_raises, second_edit_raises) ==
    CASE outcome.cls = "returned" -> ~edit_raises \/ ~second_edit_raises
      [] OTHER -> ~edit_raises

\* process_analysis, lines 361-386: the session is checked, the processing
\* message is sent, the service is built over the cached repository and
\* process_photo is entered with the photo and the coordinates of the
\* session
ProcessAnalysisEnter(user, sessions, answer_raises, handler) ==
    LET session == sessions[user]
        dep == get_analysis_repository(analysis_repo_cache, repo)
    IN  /\ user_sessions' = sessions
        /\ IF ~session_is_ready(session) \/ answer_raises
           THEN /\ result' = [op |-> handler, args |-> <<user>>,
                              value |-> Some("not started"), raised |-> None]
                /\ UNCHANGED <<repo, calls, last, ncalls, bot, analysis_repo_cache>>
           ELSE /\ analysis_repo_cache' = dep.cache
                /\ repo' = dep.repo
                /\ \E c \in Callers :
                      Enter(c, session.photo_data[1], session.latitude[1],
                            session.longitude[1], FALSE)
                /\ bot' = [pc |-> "process_photo", user |-> user, session |-> session]
                /\ result' = [op |-> handler, args |-> <<user>>,
                              value |-> Some("process_photo"), raised |-> None]
        /\ UNCHANGED <<photos, nextId, settings>>

\* a handler that leaves everything but its answer as it was
Answer(handler, user, value) ==
    /\ result' = [op |-> handler, args |-> <<user>>, value |-> Some(value), raised |-> None]
    /\ UNCHANGED <<repo, photos, calls, last, nextId, ncalls, settings,
                   analysis_repo_cache, user_sessions, bot>>

\* handle_photo: the photo is downloaded and validated, kept in the
\* session, and analysed when the session has a location
HandlePhoto(user, image, download_raises, answer_raises) ==
    /\ bot.pc = "idle"
    /\ IF download_raises
       THEN Answer("handle_photo", user, "download failed")
       ELSE IF ~validate_image(image)
       THEN Answer("handle_photo", user, "invalid image")
       ELSE LET sessions == [user_sessions EXCEPT ![user].photo_data = Some(image.data)]
            IN  IF has_location(sessions[user])
                THEN ProcessAnalysisEnter(user, sessions, answer_raises, "handle_photo")
                ELSE /\ user_sessions' = sessions
                     /\ result' = [op |-> "handle_photo", args |-> <<user>>,
                                   value |-> Some("waiting for location"), raised |-> None]
                     /\ UNCHANGED <<repo, photos, calls, last, nextId, ncalls, settings,
                                    analysis_repo_cache, bot>>

\* the coordinates are kept in the session, and the photo of the session,
\* if any, is analysed (handle_location, handle_text_with_coordinates)
SetLocation(user, lat, lon, answer_raises, handler) ==
    LET sessions == [user_sessions EXCEPT ![user].latitude = Some(lat),
                                          ![user].longitude = Some(lon)]
    IN  IF has_photo(sessions[user])
        THEN ProcessAnalysisEnter(user, sessions, answer_raises, handler)
        ELSE /\ user_sessions' = sessions
             /\ result' = [op |-> handler, args |-> <<user>>,
                           value |-> Some("waiting for photo"), raised |-> None]
             /\ UNCHANGED <<repo, photos, calls, last, nextId, ncalls, settings,
                            analysis_repo_cache, bot>>

HandleLocation(user, lat, lon, answer_raises) ==
    /\ bot.pc = "idle"
    /\ SetLocation(user, lat, lon, answer_raises, "handle_location")

HandleTextWithCoordinates(user, text, answer_raises) ==
    LET coords == parse_coordinates_from_text(text)
    IN  /\ bot.pc = "idle"
        /\ IF coords # None
           THEN SetLocation(user, coords[1][1], coords[1][2], answer_raises,
                            "handle_text_with_coordinates")
           ELSE Answer("handle_text_with_coordinates", user, "no coordinates")

\* process_analysis, lines 388-460: process_photo has returned or raised;
\* the processing message is edited and the session cleared
ProcessAnalysisEnd(edit_raises, second_edit_raises) ==
    LET user == bot.user
        clears == process_analysis_clears(last.outcome, edit_raises, second_edit_raises)
    IN  /\ bot.pc = "process_photo"
        /\ NoCallInFlight
        /\ user_sessions' = [user_sessions EXCEPT
                                ![user] = IF clears THEN session_clear(@) ELSE @]
        /\ bot' = IdleBot
        /\ result' = [op |-> "process_analysis",
                      args |-> <<user, last.outcome.cls>>,
                      value |-> Some(clears), raised |-> None]
        /\ UNCHANGED <<repo, photos, calls, last, nextId, ncalls, settings, analysis_repo_cache>>

BotNext ==
    \/ \E user \in BotUsers, image \in BotImages,
          download_raises, answer_raises \in BOOLEAN :
          HandlePhoto(user, image, download_raises, answer_raises)
    \/ \E user \in BotUsers, lat \in BotLatitudes, lon \in BotLongitudes,
          answer_raises \in BOOLEAN :
          HandleLocation(user, lat, lon, answer_raises)
    \/ \E user \in BotUsers, text \in BotTexts, answer_raises \in BOOLEAN :
          HandleTextWithCoordinates(user, text, answer_raises)
    \/ \E c \in Callers : Step(c)
    \/ \E edit_raises, second_edit_raises \in BOOLEAN :
          ProcessAnalysisEnd(edit_raises, second_edit_raises)

BotSpec == Init /\ [][BotNext]_vars

----------------------------------------------------------------------------
(* process_photo over the classifier adapters of adapters/ml *)

\* settings.ml_model_type
ModelTypes == {"stub", "yolo", "roboflow_inference"}

\* what classify was given by its model and what it returned
ClassifyResult(adapter, predictions, inference_raises, detections) ==
    [op |-> "classify",
     args |-> <<adapter, IF inference_raises THEN "raises" ELSE "returns", predictions>>,
     value |-> Some(detections), raised |-> None]

\* line 108 with StubWasteClassifier
ClassifyStub(c, detections) ==
    /\ settings.ml_model_type = "stub"
    /\ ClassifyOk(c, detections)
    /\ result' = ClassifyResult("stub", <<>>, FALSE, detections)
    /\ UNCHANGED <<settings, analysis_repo_cache, user_sessions, bot>>

\* (variant: an exception of the inference leaves classify)
ClassifyYoloPropagates(c, boxes, inference_raises) ==
    /\ settings.ml_model_type = "yolo"
    /\ IF inference_raises
       THEN ClassifyRaises(c, [cls |-> "Exception", msg |-> <<"inference failed">>])
       ELSE ClassifyOk(c, yolo_classify(boxes, inference_raises))
    /\ result' = ClassifyResult("yolo", boxes, inference_raises,
                                yolo_classify(boxes, inference_raises))
    /\ UNCHANGED <<settings, analysis_repo_cache, user_sessions, bot>>

\* line 108 with YOLOv8Classifier: the model returns boxes, or the
\* inference raises inside the try block of classify
ClassifyYolo(c, boxes, inference_raises) ==
    /\ settings.ml_model_type = "yolo"
    /\ ClassifyOk(c, yolo_classify(boxes, inference_raises))
    /\ result' = ClassifyResult("yolo", boxes, inference_raises,
                                yolo_classify(boxes, inference_raises))
    /\ UNCHANGED <<settings, analysis_repo_cache, user_sessions, bot>>

\* line 108 with RoboflowInferenceClassifier
ClassifyRoboflow(c, predictions, inference_raises) ==
    /\ settings.ml_model_type = "roboflow_inference"
    /\ ClassifyOk(c, roboflow_classify(predictions, inference_raises))
    /\ result' = ClassifyResult("roboflow_inference", predictions, inference_raises,
                                roboflow_classify(predictions, inference_raises))
    /\ UNCHANGED <<settings, analysis_repo_cache, user_sessions, bot>>

\* is_ready of YOLOv8Classifier and RoboflowInferenceClassifier answers
\* False when the model cannot be loaded; the stub is always ready
AdapterIsReadyFalse(c) ==
    /\ settings.ml_model_type # "stub"
    /\ IsReadyFalse(c)

\* a deployment with any of the classifiers
AdapterInit == \E ml_model_type \in ModelTypes : InitSettings(DefaultThresholdMeters, ml_model_type)

\* process_photo calls one after the other, at one place; what classify
\* returned is forgotten when the next call begins
AdapterNext ==
    \/ \E c \in Callers, p \in PhotoData, lat \in OverlapLatitudes, lon \in OverlapLongitudes,
          skip \in BOOLEAN :
          /\ NoCallInFlight
          /\ Begin(c, p, lat, lon, skip)
          /\ result' = NoResult
          /\ UNCHANGED <<settings, analysis_repo_cache, user_sessions, bot>>
    \/ \E c \in Callers :
          /\ UNCHANGED aux
          /\ \/ CheckDuplicate(c)
             \/ StartProcessing(c)
             \/ SavePhotoOk(c)
             \/ \E e \in Raised : SavePhotoRaises(c, e)
             \/ IsReadyTrue(c)
             \/ AdapterIsReadyFalse(c)
             \/ Finally(c)
    \/ \E c \in Callers, detections \in StubOutputs : ClassifyStub(c, detections)
    \/ \E c \in Callers, boxes \in YoloResults : ClassifyYolo(c, boxes, FALSE)
    \/ \E c \in Callers : ClassifyYolo(c, <<>>, TRUE)
    \/ \E c \in Callers, predictions \in RoboflowResults : ClassifyRoboflow(c, predictions, FALSE)
    \/ \E c \in Callers : ClassifyRoboflow(c, <<>>, TRUE)

AdapterSpec == AdapterInit /\ [][AdapterNext]_vars

----------------------------------------------------------------------------
(* core/domain/models.py: the operations of the domain objects *)

\* Location(latitude=lat, longitude=lon)
NewLocation(lat, lon) ==
    /\ result' = [op |-> "Location", args |-> <<lat, lon>>,
                  value |-> Location_new(lat, lon).value,
                  raised |-> Location_new(lat, lon).raised]
    /\ UNCHANGED <<repo, photos, calls, last, nextId, ncalls, settings, analysis_repo_cache, user_sessions, bot>>

\* analysis.get_dominant_waste_type() on an analysis holding detections
DominantWasteType(detections) ==
    LET analysis == [PhotoAnalysis_create(0, <<>>, Location(0, 0))
                        EXCEPT !.detections = detections]
    IN  /\ result' = [op |-> "get_dominant_waste_type", args |-> <<detections>>,
                      value |-> Some(get_dominant_waste_type(analysis)),
                      raised |-> None]
        /\ UNCHANGED <<repo, photos, calls, last, nextId, ncalls, settings, analysis_repo_cache, user_sessions, bot>>

\* PhotoAnalysis.is_duplicate_location (models.py lines 99-117):
\* distance < threshold_meters, with the distance of find_by_location,
\* compared on the squares in units of 0.1 m
is_duplicate_location(self, other, threshold_meters) ==
    LET lat_diff == Abs(self.location.latitude - other.location.latitude)
        lon_diff == Abs(self.location.longitude - other.location.longitude)
    IN  /\ threshold_meters > 0
        /\ lat_diff <= FarUnits
        /\ lon_diff <= FarUnits
        /\ (lat_diff * lat_diff + lon_diff * lon_diff)
              * (MetersPerDegree \div 1000) * (MetersPerDegree \div 1000)
           < (threshold_meters * (Deg(1) \div 1000)) * (threshold_meters * (Deg(1) \div 1000))

\* the places and thresholds two analyses are compared at: the same
\* point, 44.4 m and 111.0 m apart; thresholds of 0 m, 50 m and 111 m
DuplicateLatitudes == {557548, 557554, 557558}
DuplicateLongitudes == {376173}
DuplicateThresholds == {0, DefaultThresholdMeters, 111}

\* analysis.is_duplicate_location(other, threshold_meters) on two analyses
IsDuplicateLocation(lat, lon, other_lat, other_lon, threshold_meters) ==
    LET analysis == PhotoAnalysis_create(1, <<>>, Location(lat, lon))
        other == PhotoAnalysis_create(2, <<>>, Location(other_lat, other_lon))
    IN  /\ result' = [op |-> "is_duplicate_location",
                      args |-> <<analysis, other, threshold_meters>>,
                      value |-> Some(is_duplicate_location(analysis, other, threshold_meters)),
                      raised |-> None]
        /\ UNCHANGED <<repo, photos, calls, last, nextId, ncalls, settings, analysis_repo_cache, user_sessions, bot>>

DomainNext ==
    \/ \E lat \in DomainLatitudes, lon \in DomainLongitudes : NewLocation(lat, lon)
    \/ \E detections \in SeqsUpTo(DomainDetections, MaxDet) : DominantWasteType(detections)
    \/ \E lat, other_lat \in DuplicateLatitudes, lon, other_lon \in DuplicateLongitudes,
          threshold_meters \in DuplicateThresholds :
          IsDuplicateLocation(lat, lon, other_lat, other_lon, threshold_meters)

DomainSpec == Init /\ [][DomainNext]_vars

----------------------------------------------------------------------------
(* Properties of process_photo *)

Stored(analysis) == \E i \in 1..Len(repo) : repo[i] = analysis

Ended == last.pc = "done"
PastChecks(call) == call.analysis # NoAnalysis
LocationOf(call) == Location(call.latitude, call.longitude)
NoPortCalled(call) ==
    /\ call.n_save_photo = 0 /\ call.n_is_ready = 0 /\ call.n_classify = 0
    /\ call.saved = <<>>

\* C1: a call that got past the location validation and the duplicate check
\* hands its Analysis to analysis_repo.save exactly once, whether it returns,
\* raises MLModelError or raises PhotoProcessingError, and does so before it
\* returns or raises (no save while in flight, one save when it has ended,
\* with the Analysis it ends with, which is then in the repository).
C1_SavedExactlyOnce ==
    /\ \A c \in Callers : calls[c].saved = <<>>
    /\ (Ended /\ PastChecks(last)) =>
          /\ last.saved = <<last.analysis>>
          /\ last.outcome.cls \in {"returned", "MLModelError", "PhotoProcessingError"}
          /\ get_by_id(repo, last.analysis.id) = Some(last.analysis)
    /\ (Ended /\ last.outcome.cls \in {"returned", "MLModelError", "PhotoProcessingError"}) =>
          PastChecks(last)

C1_Witness ==
    /\ Ended /\ PastChecks(last)
    /\ last.outcome.cls = "PhotoProcessingError"
    /\ Len(last.saved) = 1
    /\ Len(repo) = 2

\* C2: a call with a latitude outside [-90, 90] or a longitude outside
\* [-180, 180] never gets past the entry: it ends with InvalidLocationError
\* with no call made to the repository, the photo storage or the classifier,
\* and the step in which it ends leaves the repository and the photo
\* storage as they were.
OutOfRange(call) ==
    \/ call.latitude < Deg(-90) \/ call.latitude > Deg(90)
    \/ call.longitude < Deg(-180) \/ call.longitude > Deg(180)

C2_InvalidState ==
    /\ \A c \in Callers : calls[c].pc # "idle" => ~OutOfRange(calls[c])
    /\ (Ended /\ OutOfRange(last)) =>
          /\ last.outcome = InvalidLocationError
          /\ last.n_guard = 0
          /\ NoPortCalled(last)
          /\ ~PastChecks(last)

C2_InvalidStep ==
    (last' # last /\ OutOfRange(last')) =>
        (repo' = repo /\ photos' = photos /\ nextId' = nextId)

C2_InvalidLocation == [](C2_InvalidState) /\ [][C2_InvalidStep]_vars

C2_Witness ==
    /\ Ended /\ last.outcome = InvalidLocationError
    /\ last.longitude = 1800001 /\ last.latitude = 557558
    /\ Len(repo) = 1 /\ photos # {}

\* C3: when skip_duplicate_check is false and the repository reports the
\* location as already analyzed, the call ends with DuplicateLocationError
\* having asked the repository once and called neither save_photo, is_ready,
\* classify nor analysis_repo.save; no Analysis was created, and the
\* repository and the photo storage are as they were.
C3_DuplicateStep ==
    \A c \in Callers :
        ( /\ calls[c].pc = "check_duplicate"
          /\ calls'[c] # calls[c]
          /\ ~calls[c].skip_duplicate_check
          /\ location_already_analyzed(repo, LocationOf(calls[c]), DefaultThresholdMeters) )
        => /\ last' = [calls[c] EXCEPT !.pc = "done", !.n_guard = 1,
                                       !.outcome = DuplicateLocationError]
           /\ ~PastChecks(last')
           /\ NoPortCalled(last')
           /\ repo' = repo /\ photos' = photos /\ nextId' = nextId

C3_DuplicateState ==
    (Ended /\ last.outcome.cls = "DuplicateLocationError") =>
        /\ ~last.skip_duplicate_check
        /\ ~PastChecks(last)
        /\ NoPortCalled(last)

C3_DuplicateLocation == [](C3_DuplicateState) /\ [][C3_DuplicateStep]_vars

C3_Witness ==
    /\ Ended /\ last.outcome = DuplicateLocationError
    /\ last.n_guard = 1
    /\ Len(repo) = 1 /\ photos # {}
    /\ repo[1].location # LocationOf(last)

\* C4: when no call sets skip_duplicate_check and calls do not overlap, no
\* two analyses in the repository lie within the duplicate threshold (50 m)
\* of each other; a call at the coordinates of an analysis stored by an
\* earlier call ends with DuplicateLocationError, and the repository holds
\* exactly one analysis at those coordinates.
AnalysesAt(location) == {i \in 1..Len(repo) : repo[i].location = location}

C4_NoTwoWithinThreshold ==
    /\ \A i, j \in 1..Len(repo) :
          i # j => ~WithinRadius(repo[i].location, repo[j].location, 50)
    /\ (Ended /\ \E i \in AnalysesAt(LocationOf(last)) : repo[i].id # last.analysis.id) =>
          /\ last.outcome = DuplicateLocationError
          /\ Cardinality(AnalysesAt(LocationOf(last))) = 1

C4_Witness ==
    /\ Ended /\ last.outcome = DuplicateLocationError
    /\ Len(repo) = 1
    /\ repo[1].location = LocationOf(last)

\* C5: a call with skip_duplicate_check = true does not ask the repository
\* whether the location was analyzed and never ends with
\* DuplicateLocationError; it ends with its Analysis appended to the
\* repository under an id no stored analysis has, the stored analyses being
\* kept, and it returns a Completed Analysis when the ports succeed.
C5_SkipState ==
    (Ended /\ last.skip_duplicate_check /\ ~OutOfRange(last)) =>
        /\ last.n_guard = 0
        /\ last.outcome.cls # "DuplicateLocationError"
        /\ PastChecks(last)
        /\ Stored(last.analysis)
        /\ last.raw # None =>
              (last.outcome = Returned /\ last.analysis.status = "completed")

C5_SkipStep ==
    \A c \in Callers :
        (calls[c].pc = "finally" /\ calls'[c] # calls[c] /\ calls[c].skip_duplicate_check)
        => /\ \A i \in 1..Len(repo) : repo[i].id # last'.analysis.id
           /\ repo' = Append(repo, last'.analysis)

C5_SkipDuplicateCheck == [](C5_SkipState) /\ [][C5_SkipStep]_vars

C5_Witness ==
    /\ Ended /\ last.skip_duplicate_check /\ last.outcome = Returned
    /\ Len(repo) = 2
    /\ repo[1].location = repo[2].location
    /\ repo[1].id # repo[2].id
    /\ repo[2] = last.analysis

\* C6: when is_ready returns false the call raises the MLModelError
\* "ML model is not ready" itself, not a PhotoProcessingError, and the
\* repository then holds the call's Analysis with status Failed and a
\* non-empty error_message.
C6_NotReady ==
    (Ended /\ last.ready = Some(FALSE)) =>
        /\ last.outcome.cls = "MLModelError"
        /\ last.outcome = ModelNotReady
        /\ LET found == get_by_id(repo, last.analysis.id)
           IN  /\ found = Some(last.analysis)
               /\ found[1].status = "failed"
               /\ found[1].error_message # None
               /\ found[1].error_message[1] # <<>>

C6_Witness ==
    /\ Ended /\ last.ready = Some(FALSE)
    /\ last.n_save_photo = 1 /\ last.n_is_ready = 1
    /\ Len(repo) = 1

\* C7: when save_photo, is_ready or classify raises an Exception that is
\* not an MLModelError, the Analysis gets status Failed and the exception's
\* message as error_message, that record is stored, and the call raises
\* PhotoProcessingError in place of the exception.
C7_WrappedFailure ==
    (Ended /\ last.raised # None /\ last.raised[1].cls # "MLModelError") =>
        /\ last.analysis.status = "failed"
        /\ last.analysis.error_message = Some(last.raised[1].msg)
        /\ get_by_id(repo, last.analysis.id) = Some(last.analysis)
        /\ last.outcome.cls = "PhotoProcessingError"
        /\ last.outcome.msg = <<"Failed to process photo: ">> \o last.raised[1].msg

C7_Witness ==
    /\ Ended /\ last.raised = Some([cls |-> "Exception", msg |-> <<"io error">>])
    /\ last.n_classify = 1
    /\ Len(repo) = 2
    /\ repo[1].status = "failed" /\ repo[1].photo_url = <<>>

\* C8: with valid coordinates, no duplicate, a stored photo, a ready
\* classifier and at least one detection from classify, the call returns an
\* Analysis with status Completed, a non-empty detections list, a non-empty
\* photo_url and the location of the call.
C8_Success ==
    (Ended /\ last.raw # None /\ last.raw[1] # <<>>) =>
        /\ last.outcome = Returned
        /\ last.analysis.status = "completed"
        /\ Len(last.analysis.detections) > 0
        /\ last.analysis.photo_url # <<>>
        /\ last.analysis.location = Location(last.latitude, last.longitude)
        /\ ~OutOfRange(last)

C8_Witness ==
    /\ Ended /\ last.raw # None /\ Len(last.raw[1]) = 3
    /\ last.ready = Some(TRUE)
    /\ last.n_guard = 1

\* C9: every Analysis with status Completed has a non-empty detections
\* list, whatever list classify returned.
C9_CompletedNonEmpty ==
    /\ \A i \in 1..Len(repo) :
          repo[i].status = "completed" => repo[i].detections # <<>>
    /\ last.analysis.status = "completed" => last.analysis.detections # <<>>

\* C10: the detections of a Completed Analysis hold at most one detection
\* per waste type, and each is the detection of its type in the classifier's
\* list with the greatest confidence, the first of them on ties; every type
\* of the classifier's list is present.
FirstBest(raw, waste_type) ==
    CHOOSE k \in 1..Len(raw) :
        /\ raw[k].waste_type = waste_type
        /\ \A m \in 1..Len(raw) :
              raw[m].waste_type = waste_type =>
                  \/ raw[m].confidence < raw[k].confidence
                  \/ (raw[m].confidence = raw[k].confidence /\ m >= k)

C10_StoredAggregated ==
    (Ended /\ last.analysis.status = "completed" /\ last.raw # None) =>
        LET raw == last.raw[1]
            detections == last.analysis.detections
        IN  /\ \A i, j \in 1..Len(detections) :
                  i # j => detections[i].waste_type # detections[j].waste_type
            /\ \A i \in 1..Len(detections) :
                  /\ \E k \in 1..Len(raw) : raw[k].waste_type = detections[i].waste_type
                  /\ detections[i] = raw[FirstBest(raw, detections[i].waste_type)]
            /\ \A k \in 1..Len(raw) :
                  \E i \in 1..Len(detections) : detections[i].waste_type = raw[k].waste_type

\* C11: the detections stored on a Completed Analysis are in descending
\* order of confidence, whatever order the classifier returned them in.
C11_StoredSortedDescending ==
    /\ \A i \in 1..Len(repo) :
          repo[i].status = "completed" =>
              \A j, k \in 1..Len(repo[i].detections) :
                  j < k => repo[i].detections[j].confidence >= repo[i].detections[k].confidence
    /\ (Ended /\ last.analysis.status = "completed") =>
          \A j, k \in 1..Len(last.analysis.detections) :
              j < k => last.analysis.detections[j].confidence
                          >= last.analysis.detections[k].confidence

\* C14: a call that runs the duplicate check is rejected exactly when an
\* analysis stored before it lies within the configured threshold
\* (settings.duplicate_check_threshold_meters) of its location, for every
\* configured threshold.
C14_ConfiguredThreshold ==
    (Ended /\ ~OutOfRange(last) /\ ~last.skip_duplicate_check) =>
        (last.outcome = DuplicateLocationError
            <=> \E i \in 1..Len(repo) :
                    /\ repo[i].id # last.analysis.id
                    /\ WithinRadius(repo[i].location, LocationOf(last),
                                    settings.duplicate_check_threshold_meters))

\* C15: calls that overlap are not serialised by the guard: a call that
\* passed the duplicate check stores its analysis when it ends, also when
\* another call has stored an analysis at the same location since the
\* check; so two overlapping calls at one location that both pass the check
\* before either stores are both in the repository in the end.
C15_SaveAfterGuard ==
    \A c \in Callers :
        (calls[c].pc = "finally" /\ calls'[c].pc = "idle") =>
            /\ repo' = Append(repo, calls[c].analysis)
            /\ last'.saved = <<calls[c].analysis>>
            /\ last'.n_guard = 1

C15_OverlapBothPersisted == [][C15_SaveAfterGuard]_vars

\* two analyses at one location, stored by calls that both ran the check
C15_Witness ==
    /\ Ended /\ last.n_guard = 1 /\ ~last.skip_duplicate_check
    /\ Len(repo) = 2
    /\ repo[1].location = repo[2].location
    /\ repo[2] = last.analysis

\* C18: within one call each of location_already_analyzed, save_photo,
\* is_ready, classify and analysis_repo.save is invoked at most once, in a
\* call in flight and in a call that has ended, returned or raised.
AtMostOnceEach(call) ==
    /\ call.n_guard <= 1
    /\ call.n_save_photo <= 1
    /\ call.n_is_ready <= 1
    /\ call.n_classify <= 1
    /\ Len(call.saved) <= 1

C18_NoRetries ==
    /\ \A c \in Callers : AtMostOnceEach(calls[c])
    /\ AtMostOnceEach(last)

\* save_photo raised: one attempt, nothing after it but the one save
C18_Witness ==
    /\ Ended /\ last.raised # None
    /\ last.outcome.cls = "PhotoProcessingError"
    /\ last.n_guard = 1 /\ last.n_save_photo = 1
    /\ last.n_is_ready = 0 /\ last.n_classify = 0
    /\ Len(last.saved) = 1

\* C20: within a call the status of the Analysis only moves from pending
\* to processing and from processing to completed or to failed (the
\* Analysis comes into being pending); the call ends with the status it
\* reached, and the status of a stored Analysis never changes.
StatusMoves ==
    {<<"unbound", "pending">>, <<"pending", "processing">>,
     <<"processing", "completed">>, <<"processing", "failed">>}

C20_StatusStep ==
    /\ \A c \in Callers :
          LET before == calls[c].analysis.status
              after == calls'[c].analysis.status
          IN  /\ (calls[c].pc # "idle" /\ calls'[c].pc # "idle") =>
                    (after = before \/ <<before, after>> \in StatusMoves)
              /\ (calls[c].pc # "idle" /\ calls'[c].pc = "idle") =>
                    last'.analysis.status = before
              /\ (before \in {"completed", "failed"} /\ calls'[c].pc # "idle") =>
                    after = before
    /\ \A i \in 1..Len(repo) :
          i <= Len(repo') /\ repo'[i].id = repo[i].id /\ repo'[i].status = repo[i].status

C20_StatusForward == [][C20_StatusStep]_vars

\* a call whose model failed ends with a failed analysis
C20_Witness ==
    /\ Ended /\ last.analysis.status = "failed"
    /\ last.outcome.cls = "MLModelError"
    /\ last.n_classify = 1
    /\ Stored(last.analysis)

\* C21: every Analysis handed to analysis_repo.save is Completed or Failed,
\* whether the try block ended normally, with MLModelError or with another
\* Exception: a call about to save holds a terminal status, every saved
\* Analysis and every record of the repository has one.
TerminalStatus(analysis) == analysis.status \in {"completed", "failed"}

PhotoSaved(analysis) ==
    \E p \in photos : p.url = photo_url_of(analysis.id)

\* C22: an Analysis has a photo_url only when save_photo has returned for
\* it, and then it is the URL of the stored photo; a call whose save_photo
\* raised ends with a stored Failed record with an empty photo_url, and
\* has called neither is_ready nor classify.
C22_PhotoUrl(call) ==
    /\ call.analysis.photo_url # <<>> =>
          /\ call.n_save_photo = 1
          /\ PhotoSaved(call.analysis)
          /\ call.analysis.photo_url = photo_url_of(call.analysis.id)
    /\ (call.pc = "done" /\ call.n_save_photo = 1 /\ ~PhotoSaved(call.analysis)) =>
          /\ call.analysis.photo_url = <<>>
          /\ call.analysis.status = "failed"
          /\ Stored(call.analysis)
          /\ call.n_is_ready = 0
          /\ call.n_classify = 0

C22_PhotoUrlAfterSave ==
    /\ \A c \in Callers : C22_PhotoUrl(calls[c])
    /\ C22_PhotoUrl(last)

\* save_photo raised in the second call, after it returned in the first
C22_Witness ==
    /\ Ended /\ last.n_save_photo = 1 /\ ~PhotoSaved(last.analysis)
    /\ last.raised # None
    /\ last.analysis.photo_url = <<>>
    /\ Len(repo) = 2 /\ repo[1].photo_url # <<>>

\* the call of slot c as a step leaves it (a call that ends is kept in last)
After(c) == IF calls[c].pc # "idle" /\ calls'[c].pc = "idle" THEN last' ELSE calls'[c]

\* C26: within a call, save_photo is called before is_ready, is_ready
\* before classify, and analysis_repo.save after them; is_ready is called
\* only when save_photo has returned, and classify only when is_ready has
\* returned true.  A call whose is_ready returned false has stored its
\* photo, never calls classify, and ends with a stored Failed record that
\* carries the URL of the photo.
C26_OrderStep ==
    \A c \in Callers :
        LET before == calls[c]
            after == After(c)
        IN  /\ after.n_save_photo > before.n_save_photo =>
                  /\ before.n_save_photo = 0 /\ before.n_is_ready = 0
                  /\ before.n_classify = 0 /\ before.saved = <<>>
            /\ after.n_is_ready > before.n_is_ready =>
                  /\ before.n_save_photo = 1 /\ PhotoSaved(before.analysis)
                  /\ before.n_is_ready = 0
                  /\ before.n_classify = 0 /\ before.saved = <<>>
            /\ after.n_classify > before.n_classify =>
                  /\ before.n_is_ready = 1 /\ before.ready = Some(TRUE)
                  /\ before.n_classify = 0 /\ before.saved = <<>>
            /\ after.saved # before.saved =>
                  /\ before.n_save_photo = 1
                  /\ before.n_classify = 1 \/ before.exc # NoException
                  /\ repo' = Append(repo, after.analysis)

C26_NotReady(call) ==
    call.ready = Some(FALSE) =>
        /\ call.n_save_photo = 1
        /\ PhotoSaved(call.analysis)
        /\ call.analysis.photo_url = photo_url_of(call.analysis.id)
        /\ call.analysis.photo_url # <<>>
        /\ call.n_classify = 0
        /\ call.pc = "done" =>
              /\ call.analysis.status = "failed"
              /\ Stored(call.analysis)

C26_NotReadyState ==
    /\ \A c \in Callers : C26_NotReady(calls[c])
    /\ C26_NotReady(last)

C26_CallOrder == [](C26_NotReadyState) /\ [][C26_OrderStep]_vars

C26_Witness ==
    /\ Ended /\ last.ready = Some(FALSE)
    /\ last.n_classify = 0
    /\ PhotoSaved(last.analysis)
    /\ \E i \in 1..Len(repo) :
          /\ repo[i].id = last.analysis.id
          /\ repo[i].status = "failed"
          /\ repo[i].photo_url = photo_url_of(repo[i].id)

----------------------------------------------------------------------------
(* Properties of the webhook *)

\* an analysis stored by an earlier request at the place of the last one
StoredEarlierAt(call) ==
    \E i \in 1..Len(repo) :
        /\ repo[i].id # call.analysis.id
        /\ repo[i].location = LocationOf(call)

\* the last request came with valid coordinates and a photo
ReachedService(call) ==
    /\ ~OutOfRange(call)
    /\ call.photo_data # ""

\* C19: every request sees what the earlier requests stored: a stored
\* analysis stays in the repository from request to request; a request
\* that process_photo returned from is answered 201 with its analysis
\* stored; and a request at the coordinates of an analysis stored by an
\* earlier request, without skip_duplicate_check, is answered 409.
C19_State ==
    /\ (Ended /\ last.outcome = Returned) =>
          /\ receive_photo_response(last.outcome).status_code = 201
          /\ Stored(last.analysis)
    /\ (Ended /\ ReachedService(last) /\ ~last.skip_duplicate_check /\ StoredEarlierAt(last)) =>
          /\ last.outcome = DuplicateLocationError
          /\ receive_photo_response(last.outcome).status_code = 409

C19_Step ==
    \A i \in 1..Len(repo) : i <= Len(repo') /\ repo'[i] = repo[i]

C19_SharedRepository == [](C19_State) /\ [][C19_Step]_vars

\* the second request at the coordinates of the first is answered 409
C19_Witness ==
    /\ Ended /\ ncalls = 2
    /\ ReachedService(last) /\ ~last.skip_duplicate_check
    /\ Len(repo) = 1 /\ repo[1].status = "completed"
    /\ repo[1].location = LocationOf(last)
    /\ receive_photo_response(last.outcome).status_code = 409

\* C27: every request that process_photo ended with a domain error
\* (InvalidLocationError, DuplicateLocationError, MLModelError or
\* PhotoProcessingError) is answered by receive_photo with an HTTPException
\* of status 400, 409 or 500: no domain error leaves the handler uncaught.
DomainErrors ==
    {"InvalidLocationError", "DuplicateLocationError", "MLModelError", "PhotoProcessingError"}

C27_DomainErrorsConverted ==
    (Ended /\ ReachedService(last) /\ last.outcome.cls \in DomainErrors) =>
        /\ receive_photo_response(last.outcome).escaped = None
        /\ receive_photo_response(last.outcome).status_code \in {400, 409, 500}

----------------------------------------------------------------------------
(* Properties of the bot *)

\* the process_photo call a process_analysis awaits
AwaitedCall ==
    IF NoCallInFlight THEN last
    ELSE calls[CHOOSE c \in Callers : calls[c].pc # "idle"]

\* C28: process_photo is entered for a user only with the validated photo
\* and the coordinates that the session of that user holds; and when
\* process_analysis has dealt with what process_photo returned or raised,
\* that session holds neither a photo nor coordinates.
C28_SessionCleared ==
    /\ bot.pc = "process_photo" =>
          /\ session_is_ready(bot.session)
          /\ user_sessions[bot.user] = bot.session
          /\ validate_image(ImageOf(bot.session.photo_data[1]))
          /\ AwaitedCall.photo_data = bot.session.photo_data[1]
          /\ AwaitedCall.latitude = bot.session.latitude[1]
          /\ AwaitedCall.longitude = bot.session.longitude[1]
    /\ result.op = "process_analysis" =>
          /\ ~has_photo(user_sessions[result.args[1]])
          /\ ~has_location(user_sessions[result.args[1]])

----------------------------------------------------------------------------
(* Properties of the classifier adapters *)

\* the model gave the adapter nothing that qualifies: YOLO returned no box,
\* the Roboflow API returned no prediction of confidence 0.25 or more
NoQualifyingDetection(adapter, predictions) ==
    \/ adapter = "yolo" /\ predictions = <<>>
    \/ adapter = "roboflow_inference"
         /\ \A k \in 1..Len(predictions) : predictions[k].confidence * 10 < 25

\* C24: classify of the stub, the YOLO and the Roboflow adapter returns a
\* list that is not empty, and the single detection {unknown, 0.0, no box}
\* when the model gave nothing that qualifies.
C24_AdaptersNonEmpty ==
    result.op = "classify" =>
        LET adapter == result.args[1]
            predictions == result.args[3]
            detections == result.value[1]
        IN  /\ detections # <<>>
            /\ (result.args[2] = "returns" /\ NoQualifyingDetection(adapter, predictions)) =>
                  detections = <<[waste_type |-> "unknown", confidence |-> 0,
                                  bounding_box |-> <<>>]>>

\* the Roboflow API returned one prediction, below the threshold
C24_Witness ==
    /\ result.op = "classify"
    /\ result.args[1] = "roboflow_inference"
    /\ result.args[2] = "returns"
    /\ result.args[3] = <<ModelPrediction("plastic", 2)>>
    /\ result.value = << <<Sentinel>> >>

\* the inference raised inside the classify that the call made
InferenceRaised(call) ==
    /\ call.n_classify = 1
    /\ result.op = "classify"
    /\ result.args[2] = "raises"

\* C29: when the inference raises inside classify of the YOLO or the
\* Roboflow adapter, classify returns the single detection
\* {unknown, 0.0, no box}: the call holds no exception, returns, and its
\* stored Analysis is Completed with that detection and no error_message
\* (what classify returned belongs to the call in flight, and to the call
\* that ended last once no call is in flight).
C29_SwallowedInference ==
    /\ \A c \in Callers :
          (calls[c].pc = "finally" /\ InferenceRaised(calls[c])) =>
              /\ calls[c].exc = NoException
              /\ calls[c].raised = None
    /\ (Ended /\ NoCallInFlight /\ InferenceRaised(last)) =>
          /\ result.args[1] \in {"yolo", "roboflow_inference"}
          /\ last.raw = Some(<<[waste_type |-> "unknown", confidence |-> 0,
                                bounding_box |-> <<>>]>>)
          /\ last.outcome = Returned
          /\ last.analysis.status = "completed"
          /\ last.analysis.detections = last.raw[1]
          /\ last.analysis.error_message = None
          /\ Stored(last.analysis)

\* the inference of YOLO raised and the call returned a Completed analysis
C29_Witness ==
    /\ Ended /\ NoCallInFlight /\ InferenceRaised(last)
    /\ result.args[1] = "yolo"
    /\ last.outcome = Returned
    /\ last.analysis.status = "completed"
    /\ Stored(last.analysis)

----------------------------------------------------------------------------
(* Properties of the lookups *)

\* a step of a lookup: no process_photo call moves
LookupStep(op) ==
    /\ result'.op = op
    /\ UNCHANGED <<calls, last, ncalls, nextId>>

\* C16: get_analysis returns the stored Analysis that has the identifier
\* asked for, None when no stored Analysis has it, and leaves the
\* repository and the photo storage as they were; every Analysis a
\* process_photo call saved is found under its identifier.
C16_LookupStep ==
    LookupStep("get_analysis") =>
        LET analysis_id == result'.args[1]
        IN  /\ \A i \in 1..Len(repo) :
                  repo[i].id = analysis_id => result'.value = <<repo[i]>>
            /\ (\A i \in 1..Len(repo) : repo[i].id # analysis_id) => result'.value = None
            /\ result'.raised = None
            /\ repo' = repo
            /\ photos' = photos

C16_SavedIsFound ==
    (Ended /\ last.saved # <<>>) => get_by_id(repo, last.analysis.id) = Some(last.analysis)

C16_PureLookup == [](C16_SavedIsFound) /\ [][C16_LookupStep]_vars

\* a failed analysis is found under its identifier
C16_Witness ==
    /\ result.op = "get_analysis"
    /\ result.value # None
    /\ result.value[1].status = "failed"
    /\ Stored(result.value[1])
    /\ result.args = <<2>>

\* distance <= radius_meters for coordinates in units of 0.0001 degree
\* (11.1 m): distance^2 = (dlat^2 + dlon^2) * 11.1^2
AtMost(a, b, radius_meters) ==
    ((a.latitude - b.latitude) * (a.latitude - b.latitude)
       + (a.longitude - b.longitude) * (a.longitude - b.longitude)) * 12321
    <= radius_meters * radius_meters * 100

\* C17: for valid coordinates find_nearby_analyses returns the stored
\* analyses whose distance from the point is at most the radius, each of
\* them once and in the order of the repository, none farther away, and
\* leaves the repository and the photo storage as they were.
C17_NearbyStep ==
    (LookupStep("find_nearby_analyses") /\ result'.raised = None) =>
        LET point == [latitude |-> result'.args[1], longitude |-> result'.args[2]]
            radius_meters == result'.args[3]
            found == result'.value[1]
        IN  /\ \A i \in 1..Len(repo) :
                  AtMost(repo[i].location, point, radius_meters)
                      <=> \E k \in 1..Len(found) : found[k] = repo[i]
            /\ \A k \in 1..Len(found) : \E i \in 1..Len(repo) : found[k] = repo[i]
            /\ \A k, m \in 1..Len(found) : k # m => found[k].id # found[m].id
            /\ repo' = repo
            /\ photos' = photos

C17_FindNearby == [][C17_NearbyStep]_vars

\* the analysis at exactly 111 m is returned, with the one stored at the
\* same place by a call that skipped the duplicate check
C17_Witness ==
    /\ result.op = "find_nearby_analyses"
    /\ result.args = <<557548, 376173, 111>>
    /\ result.value # None
    /\ Len(result.value[1]) = 2
    /\ result.value[1][1].location = result.value[1][2].location
    /\ result.value[1][1].location = Location(557558, 376173)

\* C23: location_already_analyzed answers true exactly when
\* find_by_location for the same Location and threshold is not empty, that
\* is when some stored analysis is at most the threshold away, and leaves
\* the repository and the photo storage as they were.
C23_AlreadyAnalyzedStep ==
    LookupStep("location_already_analyzed") =>
        LET point == [latitude |-> result'.args[1], longitude |-> result'.args[2]]
            threshold_meters == result'.args[3]
        IN  /\ result'.value \in {<<TRUE>>, <<FALSE>>}
            /\ result'.value = <<TRUE>>
                  <=> find_by_location(repo, point, threshold_meters) # <<>>
            /\ result'.value = <<TRUE>>
                  <=> \E i \in 1..Len(repo) : AtMost(repo[i].location, point, threshold_meters)
            /\ repo' = repo
            /\ photos' = photos

C23_AlreadyAnalyzed == [][C23_AlreadyAnalyzedStep]_vars

\* the one stored analysis is 111 m away: not found within 50 m, found within 111 m
C23_Witness ==
    /\ result.op = "location_already_analyzed"
    /\ result.args = <<557548, 376173, 111>>
    /\ result.value = <<TRUE>>
    /\ Len(repo) = 1
    /\ ~location_already_analyzed(repo, Location(557548, 376173), DefaultThresholdMeters)

\* C25: the duplicate guard counts the stored analyses whatever their
\* status: once a Failed analysis is stored at a location, a later call
\* within the threshold (50 m) of it that does not set skip_duplicate_check
\* ends with DuplicateLocationError and stores nothing, so no call that
\* kept the check got past the guard next to a stored Failed analysis.
FailedNear(location, own_id) ==
    \E i \in 1..Len(repo) :
        /\ repo[i].status = "failed"
        /\ repo[i].id # own_id
        /\ AtMost(repo[i].location, location, DefaultThresholdMeters)

C25_FailedStep ==
    \A c \in Callers :
        ( /\ calls[c].pc = "check_duplicate"
          /\ calls'[c] # calls[c]
          /\ ~calls[c].skip_duplicate_check
          /\ FailedNear(LocationOf(calls[c]), 0) )
        => /\ last'.pc = "done"
           /\ last'.outcome = DuplicateLocationError
           /\ ~PastChecks(last')
           /\ repo' = repo

C25_FailedState ==
    /\ \A c \in Callers :
          (PastChecks(calls[c]) /\ ~calls[c].skip_duplicate_check) =>
              ~FailedNear(LocationOf(calls[c]), calls[c].analysis.id)
    /\ (Ended /\ PastChecks(last) /\ ~last.skip_duplicate_check) =>
          ~FailedNear(LocationOf(last), last.analysis.id)

C25_FailedCounts == [](C25_FailedState) /\ [][C25_FailedStep]_vars

C25_Witness ==
    /\ Ended /\ last.outcome = DuplicateLocationError
    /\ ~last.skip_duplicate_check
    /\ Len(repo) = 1
    /\ repo[1].status = "failed"
    /\ repo[1].location # LocationOf(last)
    /\ FailedNear(LocationOf(last), 0)

----------------------------------------------------------------------------
(* Properties of the domain objects *)

\* C12: get_dominant_waste_type returns Unknown for an empty detection
\* list, and otherwise the waste type of a detection whose confidence no
\* other detection exceeds and which no earlier detection equals.
C12_DominantWasteType ==
    result.op = "get_dominant_waste_type" =>
        LET detections == result.args[1]
        IN  IF detections = <<>>
            THEN result.value = Some("unknown")
            ELSE \E k \in 1..Len(detections) :
                    /\ result.value = Some(detections[k].waste_type)
                    /\ \A m \in 1..Len(detections) :
                          detections[m].confidence <= detections[k].confidence
                    /\ \A m \in 1..(k - 1) :
                          detections[m].confidence < detections[k].confidence

\* two categories share the maximum, the later one is not returned
C12_Witness ==
    /\ result.op = "get_dominant_waste_type"
    /\ result.args = << <<WasteDetection("glass", 2, None), WasteDetection("paper", 9, None),
                         WasteDetection("glass", 9, None)>> >>
    /\ result.value = Some("paper")

\* C13: constructing a Location gives a Location with the given latitude
\* and longitude exactly when -90 <= latitude <= 90 and
\* -180 <= longitude <= 180; otherwise it raises ValueError and gives no value.
C13_LocationRange ==
    result.op = "Location" =>
        LET lat == result.args[1]
            lon == result.args[2]
            inside == /\ -900000 <= lat /\ lat <= 900000
                      /\ -1800000 <= lon /\ lon <= 1800000
        IN  /\ inside => (result.value = <<[latitude |-> lat, longitude |-> lon]>>
                          /\ result.raised = None)
            /\ ~inside => (result.value = None /\ result.raised = Some("ValueError"))

\* the ends of both ranges are valid
C13_Witness ==
    /\ result.op = "Location"
    /\ result.args = <<900000, -1800000>>
    /\ result.value # None

\* a latitude just outside the range is not
C13_WitnessOutside ==
    /\ result.op = "Location"
    /\ result.args = <<-900001, 376173>>
    /\ result.raised = Some("ValueError")

\* C30: for two analyses and a threshold, is_duplicate_location gives the
\* answer that the repository's duplicate check gives for the location of
\* the first against a repository holding the second, also when the
\* distance equals the threshold.
C30_SameVerdict ==
    result.op = "is_duplicate_location" =>
        LET analysis == result.args[1]
            other == result.args[2]
            threshold_meters == result.args[3]
        IN  result.value[1]
              = location_already_analyzed(<<other>>, analysis.location, threshold_meters)

====
